---- MODULE Spec2Model ----
(***************************************************************************)
(* Inkstack auth service: the session manager (AuthService), the token     *)
(* codec (JWTService), the refresh-token ledger (tokenRepository), the     *)
(* credential store (userRepository) and the Redis revocation / rate-limit *)
(* cache.                                                                  *)
(*                                                                         *)
(* Time is counted in clock ticks.  All calls made at one value of `now`   *)
(* fall into the same clock second, which is the precision of the JWT      *)
(* NumericDate fields; a Tick moves the clock to a later second.  The      *)
(* durations below are expressed in ticks.                                 *)
(*                                                                         *)
(* Every handler is a pure operator XxxOp(args, fail) that returns the     *)
(* error message of the Go function and the new contents of the stores;    *)
(* `fail` names the one collaborator call (database, cache, hasher) that   *)
(* returns a transport error during the invocation, or "none".             *)
(***************************************************************************)
EXTENDS Integers, Sequences, FiniteSets, TLC

VARIABLES now, users, ledger, blacklist, attempts, issued, loggedOut, loggedOutAccess, reg,
          ref, lgn

vars ==
    <<now, users, ledger, blacklist, attempts, issued, loggedOut, loggedOutAccess, reg, ref,
      lgn>>

----------------------------------------------------------------------------
(* Bounds of the model *)

MaxTime == 1
MaxRateTime == 2
MaxUsers == 2
MaxCount == 6
MaxFailed == 1
Procs == 2
MaxUserTime == 2
MaxPurgeTime == 3
MaxRows == 3

(* Program constants.  One tick stands for half of the 15-minute          *)
(* rate-limit window, so that failed logins of one window can fall at      *)
(* different times.  The token lifetimes are configuration               *)
(* (JWT_ACCESS_EXPIRY, JWT_REFRESH_EXPIRY): they are set to one and two    *)
(* ticks, which keeps the refresh token the longer-lived of the two.       *)

RateLimit == 5
LoginWindow == 2
AccessExpiry == 1
RefreshExpiry == 2

NoTime == -1
NoTTL == -1
OK == "ok"

----------------------------------------------------------------------------
(* Strings *)

ToLower(s) ==
    CASE s = "A@x" -> "a@x"
      [] s = "AL" -> "al"
      [] OTHER -> s

(* util: validation and password hashing *)

ValidateEmail(email) == email \in {"a@x", "A@x", "b@x"}

ValidateUsername(username) == username \in {"al", "AL", "bo"}

ValidatePasswordStrength(password) == password \in {"Pw1!aaaa", "Pw2!bbbb"}

HashPassword(password) == <<"bcrypt", password>>

ComparePassword(hash, password) == hash = <<"bcrypt", password>>

----------------------------------------------------------------------------
(* Token codec *)

Garbage ==
    [uid |-> 0, email |-> "", username |-> "", role |-> "", sub |-> "",
     iat |-> 0, nbf |-> 0, exp |-> 0, alg |-> "", sig |-> FALSE]

(* fmt.Sprintf("%d", n) *)
Digits == <<"0", "1", "2", "3", "4", "5", "6", "7", "8", "9">>

RECURSIVE Sprintf_d(_)
Sprintf_d(n) ==
    IF n < 10 THEN Digits[n + 1] ELSE Sprintf_d(n \div 10) \o Digits[(n % 10) + 1]

GenerateToken(user, ttl) ==
    [uid |-> user.id, email |-> user.email, username |-> user.username,
     role |-> user.role, sub |-> Sprintf_d(user.id),
     iat |-> now, nbf |-> now, exp |-> now + ttl, alg |-> "HS256", sig |-> TRUE]

(* The claims ValidateToken hands back for a token it accepts *)
Claims(tok) ==
    [UserID |-> tok.uid, Email |-> tok.email, Username |-> tok.username,
     Role |-> tok.role, Subject |-> tok.sub, IssuedAt |-> tok.iat,
     ExpiresAt |-> tok.exp]

GenerateAccessToken_RefreshLifetime(user) == GenerateToken(user, RefreshExpiry)

GenerateAccessToken(user) == GenerateToken(user, AccessExpiry)

GenerateRefreshToken(user) == GenerateToken(user, RefreshExpiry)

(* jwt.SigningMethodHMAC *)
HMAC == {"HS256", "HS384", "HS512"}

JwtValidateToken_NoMethodCheck(tok) == tok.sig /\ tok.nbf <= now /\ now < tok.exp

JwtValidateToken(tok) ==
    tok.alg \in HMAC /\ tok.sig /\ tok.nbf <= now /\ now < tok.exp

----------------------------------------------------------------------------
(* Credential store *)

Live(rows) == {r \in rows : ~r.deleted}

UserIds == 1..Len(users)

LiveIds == {i \in UserIds : ~users[i].deleted}

FindByID_Unscoped(id) == IF id \in UserIds THEN id ELSE 0

FindByID(id) == IF id \in LiveIds THEN id ELSE 0

ExistsByEmail_CaseSensitive(email) ==
    \E i \in LiveIds : users[i].email = email

ExistsByEmail(email) ==
    \E i \in LiveIds : ToLower(users[i].email) = ToLower(email)

ExistsByUsername(username) ==
    \E i \in LiveIds : ToLower(users[i].username) = ToLower(username)

UniqueViolation(email, username) ==
    \E i \in UserIds : users[i].email = email \/ users[i].username = username

Matching(identifier) ==
    {i \in LiveIds : ToLower(users[i].email) = ToLower(identifier)
                     \/ ToLower(users[i].username) = ToLower(identifier)}

FindByEmailOrUsername(identifier) ==
    IF Matching(identifier) = {} THEN 0
    ELSE CHOOSE i \in Matching(identifier) : \A j \in Matching(identifier) : i <= j

----------------------------------------------------------------------------
(* Refresh-token ledger *)

NewRow(uid, tok, expiresAt, ip, ua) ==
    [uid |-> uid, token |-> tok, expiresAt |-> expiresAt, revoked |-> FALSE,
     ip |-> ip, ua |-> ua, updatedAt |-> now, deleted |-> FALSE]

TokenTaken(rows, tok) == \E r \in rows : r.token = tok

FindByToken(rows, tok) == {r \in Live(rows) : r.token = tok}

IsValid_IgnoresRevoked(row) == now < row.expiresAt

IsValid(row) == ~row.revoked /\ now < row.expiresAt

RevokeToken_Skipped(rows, tok) == rows

RevokeToken(rows, tok) ==
    {IF ~r.deleted /\ r.token = tok
     THEN [r EXCEPT !.revoked = TRUE, !.updatedAt = now] ELSE r : r \in rows}

RevokeAllUserTokens_Everyone(rows, uid) ==
    {IF ~r.deleted /\ ~r.revoked
     THEN [r EXCEPT !.revoked = TRUE, !.updatedAt = now] ELSE r : r \in rows}

RevokeAllUserTokens(rows, uid) ==
    {IF ~r.deleted /\ r.uid = uid /\ ~r.revoked
     THEN [r EXCEPT !.revoked = TRUE, !.updatedAt = now] ELSE r : r \in rows}

----------------------------------------------------------------------------
(* Redis cache *)

GetLoginAttempts(identifier) ==
    IF identifier \in DOMAIN attempts THEN attempts[identifier].count ELSE 0

Incr(identifier) ==
    IF identifier \in DOMAIN attempts
    THEN [attempts EXCEPT ![identifier].count = @ + 1]
    ELSE [k \in DOMAIN attempts \cup {identifier} |->
            IF k = identifier THEN [count |-> 1, exp |-> NoTTL] ELSE attempts[k]]

Expire(att, identifier, ttl) == [att EXCEPT ![identifier].exp = now + ttl]

IncrementLoginAttempts_SlidingWindow(identifier, fail) ==
    IF fail = "Incr" THEN attempts
    ELSE IF fail # "Expire"
         THEN Expire(Incr(identifier), identifier, LoginWindow)
         ELSE Incr(identifier)

IncrementLoginAttempts(identifier, fail) ==
    IF fail = "Incr" THEN attempts
    ELSE IF Incr(identifier)[identifier].count = 1 /\ fail # "Expire"
         THEN Expire(Incr(identifier), identifier, LoginWindow)
         ELSE Incr(identifier)

ResetLoginAttempts(identifier, fail) ==
    IF fail = "Del" THEN attempts
    ELSE [k \in DOMAIN attempts \ {identifier} |-> attempts[k]]

IsTokenBlacklisted(tok) == tok \in DOMAIN blacklist

BlacklistToken(tok, ttl, fail) ==
    IF fail = "Set" THEN blacklist
    ELSE [k \in DOMAIN blacklist \cup {tok} |-> IF k = tok THEN now + ttl ELSE blacklist[k]]

----------------------------------------------------------------------------
(* Session manager.  A result carries the returned error, the stores as  *)
(* the call leaves them, the tokens handed back and whether the          *)
(* credential store was queried.                                         *)

Result(err, u, l, b, a, acc, rtk, q) ==
    [err |-> err, users |-> u, ledger |-> l, blacklist |-> b, attempts |-> a,
     access |-> acc, refresh |-> rtk, queried |-> q]

Unchanged(err, q) ==
    Result(err, users, ledger, blacklist, attempts, Garbage, Garbage, q)

generateTokenPair_Upsert(user, ip, ua, fail) ==
    IF fail = "tokenRepo.Create"
    THEN [err |-> "failed to store refresh token", ledger |-> ledger,
          access |-> Garbage, refresh |-> Garbage]
    ELSE [err |-> OK,
          ledger |-> {r \in ledger : r.token # GenerateRefreshToken(user)}
                     \cup {NewRow(user.id, GenerateRefreshToken(user),
                                  now + RefreshExpiry, ip, ua)},
          access |-> GenerateAccessToken(user),
          refresh |-> GenerateRefreshToken(user)]

generateTokenPair_SingleSession(user, ip, ua, fail) ==
    IF fail = "tokenRepo.Create" \/ TokenTaken(ledger, GenerateRefreshToken(user))
    THEN [err |-> "failed to store refresh token", ledger |-> ledger,
          access |-> Garbage, refresh |-> Garbage]
    ELSE [err |-> OK,
          ledger |-> RevokeAllUserTokens(ledger, user.id)
                        \cup {NewRow(user.id, GenerateRefreshToken(user),
                                     now + RefreshExpiry, ip, ua)},
          access |-> GenerateAccessToken(user),
          refresh |-> GenerateRefreshToken(user)]

generateTokenPair(user, ip, ua, fail) ==
    IF fail = "tokenRepo.Create" \/ TokenTaken(ledger, GenerateRefreshToken(user))
    THEN [err |-> "failed to store refresh token", ledger |-> ledger,
          access |-> Garbage, refresh |-> Garbage]
    ELSE [err |-> OK,
          ledger |-> ledger \cup {NewRow(user.id, GenerateRefreshToken(user),
                                         now + RefreshExpiry, ip, ua)},
          access |-> GenerateAccessToken(user),
          refresh |-> GenerateRefreshToken(user)]

NewUser(email, username, password) ==
    [id |-> Len(users) + 1, email |-> email, username |-> username,
     hash |-> HashPassword(password), active |-> TRUE, role |-> "user",
     lastLogin |-> NoTime, deleted |-> FALSE]

RegisterOp(email, username, password, fail) ==
    IF ~ValidateEmail(email) THEN Unchanged("invalid email", FALSE)
    ELSE IF ~ValidateUsername(username) THEN Unchanged("invalid username", FALSE)
    ELSE IF ~ValidatePasswordStrength(password) THEN Unchanged("weak password", FALSE)
    ELSE IF fail = "ExistsByEmail" THEN Unchanged("failed to check email", TRUE)
    ELSE IF ExistsByEmail(email) THEN Unchanged("email already registered", TRUE)
    ELSE IF fail = "ExistsByUsername" THEN Unchanged("failed to check username", TRUE)
    ELSE IF ExistsByUsername(username) THEN Unchanged("username already taken", TRUE)
    ELSE IF fail = "HashPassword" THEN Unchanged("failed to hash password", TRUE)
    ELSE IF fail = "userRepo.Create" \/ UniqueViolation(email, username)
         THEN Unchanged("failed to create user", TRUE)
    ELSE LET user == NewUser(email, username, password)
             pair == generateTokenPair(user, "", "", fail)
         IN  IF pair.err # OK
             THEN Result("failed to generate tokens", Append(users, user), ledger,
                         blacklist, attempts, Garbage, Garbage, TRUE)
             ELSE Result(OK, Append(users, user), pair.ledger, blacklist, attempts,
                         pair.access, pair.refresh, TRUE)

LoginOp(identifier, password, ip, ua, fail) ==
    IF fail # "Get" /\ GetLoginAttempts(identifier) >= RateLimit
    THEN Unchanged("too many failed login attempts", FALSE)
    ELSE IF fail = "FindByEmailOrUsername" \/ FindByEmailOrUsername(identifier) = 0
    THEN Result("invalid credentials", users, ledger, blacklist,
                IncrementLoginAttempts(identifier, fail), Garbage, Garbage, TRUE)
    ELSE LET user == users[FindByEmailOrUsername(identifier)]
         IN  IF ~user.active THEN Unchanged("account is inactive", TRUE)
             ELSE IF ~ComparePassword(user.hash, password)
             THEN Result("invalid credentials", users, ledger, blacklist,
                         IncrementLoginAttempts(identifier, fail), Garbage, Garbage, TRUE)
             ELSE LET att == ResetLoginAttempts(identifier, fail)
                      logged == [user EXCEPT !.lastLogin = now]
                      saved == IF fail = "userRepo.Update" THEN users
                               ELSE [users EXCEPT ![user.id] = logged]
                      pair == generateTokenPair(logged, ip, ua, fail)
                  IN  IF pair.err # OK
                      THEN Result("failed to generate tokens", saved, ledger, blacklist,
                                  att, Garbage, Garbage, TRUE)
                      ELSE Result(OK, saved, pair.ledger, blacklist, att,
                                  pair.access, pair.refresh, TRUE)

RefreshTokenOp_Rotates(tok, fail) ==
    IF ~JwtValidateToken(tok) THEN Unchanged("invalid refresh token", FALSE)
    ELSE IF fail = "FindByToken" \/ FindByToken(ledger, tok) = {}
    THEN Unchanged("refresh token not found", FALSE)
    ELSE IF \E r \in FindByToken(ledger, tok) : ~IsValid(r)
    THEN Unchanged("refresh token is invalid or expired", FALSE)
    ELSE IF fail = "FindByID" \/ FindByID(tok.uid) = 0
    THEN Unchanged("user not found", TRUE)
    ELSE IF ~users[tok.uid].active THEN Unchanged("account is inactive", TRUE)
    ELSE Result(OK, users, RevokeToken(ledger, tok), blacklist, attempts,
                GenerateAccessToken(users[tok.uid]), Garbage, TRUE)

RefreshTokenOp(tok, fail) ==
    IF ~JwtValidateToken(tok) THEN Unchanged("invalid refresh token", FALSE)
    ELSE IF fail = "FindByToken" \/ FindByToken(ledger, tok) = {}
    THEN Unchanged("refresh token not found", FALSE)
    ELSE IF \E r \in FindByToken(ledger, tok) : ~IsValid(r)
    THEN Unchanged("refresh token is invalid or expired", FALSE)
    ELSE IF fail = "FindByID" \/ FindByID(tok.uid) = 0
    THEN Unchanged("user not found", TRUE)
    ELSE IF ~users[tok.uid].active THEN Unchanged("account is inactive", TRUE)
    ELSE Result(OK, users, ledger, blacklist, attempts,
                GenerateAccessToken(users[tok.uid]), Garbage, TRUE)

LogoutOp_RequiresRow(refreshTok, accessTok, fail) ==
    IF fail = "RevokeToken" \/ ~\E r \in FindByToken(ledger, refreshTok) : ~r.revoked
    THEN Unchanged("failed to revoke refresh token", FALSE)
    ELSE Result(OK, users, RevokeToken(ledger, refreshTok),
                IF JwtValidateToken(accessTok) /\ accessTok.exp - now > 0
                THEN BlacklistToken(accessTok, accessTok.exp - now, fail)
                ELSE blacklist,
                attempts, Garbage, Garbage, FALSE)

LogoutOp_RequiresAccessToken(refreshTok, accessTok, fail) ==
    IF fail = "RevokeToken" THEN Unchanged("failed to revoke refresh token", FALSE)
    ELSE IF ~JwtValidateToken(accessTok) THEN Unchanged("failed to parse token", FALSE)
    ELSE Result(OK, users, RevokeToken(ledger, refreshTok),
                BlacklistToken(accessTok, accessTok.exp - now, fail),
                attempts, Garbage, Garbage, FALSE)

LogoutOp(refreshTok, accessTok, fail) ==
    IF fail = "RevokeToken" THEN Unchanged("failed to revoke refresh token", FALSE)
    ELSE Result(OK, users, RevokeToken(ledger, refreshTok),
                IF JwtValidateToken(accessTok) /\ accessTok.exp - now > 0
                THEN BlacklistToken(accessTok, accessTok.exp - now, fail)
                ELSE blacklist,
                attempts, Garbage, Garbage, FALSE)

LogoutAllOp(uid, fail) ==
    IF fail = "RevokeAllUserTokens" THEN Unchanged("failed to revoke all user tokens", FALSE)
    ELSE Result(OK, users, RevokeAllUserTokens(ledger, uid), blacklist, attempts,
                Garbage, Garbage, FALSE)

ChangePasswordOp_BlacklistsSessions(uid, oldPassword, newPassword, fail) ==
    IF fail = "FindByID" \/ FindByID(uid) = 0 THEN Unchanged("user not found", TRUE)
    ELSE IF ~ComparePassword(users[uid].hash, oldPassword)
    THEN Unchanged("invalid current password", TRUE)
    ELSE IF ~ValidatePasswordStrength(newPassword) THEN Unchanged("weak password", TRUE)
    ELSE IF fail = "HashPassword" THEN Unchanged("failed to hash password", TRUE)
    ELSE IF fail = "userRepo.Update" THEN Unchanged("failed to update password", TRUE)
    ELSE Result(OK, [users EXCEPT ![uid].hash = HashPassword(newPassword)],
                IF fail = "RevokeAllUserTokens" THEN ledger
                ELSE RevokeAllUserTokens(ledger, uid),
                [k \in DOMAIN blacklist \cup {t \in issued : t.uid = uid /\ now < t.exp} |->
                    IF k \in DOMAIN blacklist THEN blacklist[k] ELSE k.exp],
                attempts, Garbage, Garbage, TRUE)

ChangePasswordOp_RevokesFirst(uid, oldPassword, newPassword, fail) ==
    IF fail = "FindByID" \/ FindByID(uid) = 0 THEN Unchanged("user not found", TRUE)
    ELSE IF ~ComparePassword(users[uid].hash, oldPassword)
    THEN Result("invalid current password", users, RevokeAllUserTokens(ledger, uid),
                blacklist, attempts, Garbage, Garbage, TRUE)
    ELSE IF ~ValidatePasswordStrength(newPassword)
    THEN Result("weak password", users, RevokeAllUserTokens(ledger, uid),
                blacklist, attempts, Garbage, Garbage, TRUE)
    ELSE IF fail = "HashPassword" THEN Unchanged("failed to hash password", TRUE)
    ELSE IF fail = "userRepo.Update" THEN Unchanged("failed to update password", TRUE)
    ELSE Result(OK, [users EXCEPT ![uid].hash = HashPassword(newPassword)],
                IF fail = "RevokeAllUserTokens" THEN ledger
                ELSE RevokeAllUserTokens(ledger, uid),
                blacklist, attempts, Garbage, Garbage, TRUE)

ChangePasswordOp(uid, oldPassword, newPassword, fail) ==
    IF fail = "FindByID" \/ FindByID(uid) = 0 THEN Unchanged("user not found", TRUE)
    ELSE IF ~ComparePassword(users[uid].hash, oldPassword)
    THEN Unchanged("invalid current password", TRUE)
    ELSE IF ~ValidatePasswordStrength(newPassword) THEN Unchanged("weak password", TRUE)
    ELSE IF fail = "HashPassword" THEN Unchanged("failed to hash password", TRUE)
    ELSE IF fail = "userRepo.Update" THEN Unchanged("failed to update password", TRUE)
    ELSE Result(OK, [users EXCEPT ![uid].hash = HashPassword(newPassword)],
                IF fail = "RevokeAllUserTokens" THEN ledger
                ELSE RevokeAllUserTokens(ledger, uid),
                blacklist, attempts, Garbage, Garbage, TRUE)

ValidateTokenOp_TrustsClaims(tok, fail) ==
    IF fail # "Exists" /\ IsTokenBlacklisted(tok)
    THEN Unchanged("token has been revoked", FALSE)
    ELSE IF ~JwtValidateToken(tok) THEN Unchanged("failed to parse token", FALSE)
    ELSE Unchanged(OK, FALSE)

ValidateTokenOp(tok, fail) ==
    IF fail # "Exists" /\ IsTokenBlacklisted(tok)
    THEN Unchanged("token has been revoked", FALSE)
    ELSE IF ~JwtValidateToken(tok) THEN Unchanged("failed to parse token", FALSE)
    ELSE IF fail = "FindByID" \/ FindByID(tok.uid) = 0
    THEN Unchanged("user not found", TRUE)
    ELSE IF ~users[tok.uid].active THEN Unchanged("account is inactive", TRUE)
    ELSE Unchanged(OK, TRUE)

(* HTTP layer: the protected routes run behind AuthMiddleware, which     *)
(* asks the codec alone and puts the claims' user id in the context.     *)

AuthMiddleware(tok) == JwtValidateToken(tok)

LogoutHandler(bearer, refreshTok, fail) ==
    IF ~AuthMiddleware(bearer) THEN Unchanged("Invalid or expired token", FALSE)
    ELSE LogoutOp(refreshTok, bearer, fail)

ChangePasswordHandler(bearer, oldPassword, newPassword, fail) ==
    IF ~AuthMiddleware(bearer) THEN Unchanged("Invalid or expired token", FALSE)
    ELSE ChangePasswordOp(bearer.uid, oldPassword, newPassword, fail)

GetMeHandler(bearer, fail) ==
    IF ~AuthMiddleware(bearer) THEN Unchanged("Invalid or expired token", FALSE)
    ELSE IF ValidateTokenOp(bearer, fail).err # OK THEN Unchanged("Invalid token", TRUE)
    ELSE Unchanged(OK, TRUE)

(* Ledger maintenance *)

DeleteExpired(rows) ==
    {IF ~r.deleted /\ r.expiresAt < now THEN [r EXCEPT !.deleted = TRUE] ELSE r : r \in rows}

CleanupRevokedTokens_Stale(rows, olderThan) ==
    {IF ~r.deleted /\ r.updatedAt < now - olderThan
     THEN [r EXCEPT !.deleted = TRUE] ELSE r : r \in rows}

CleanupRevokedTokens(rows, olderThan) ==
    {IF ~r.deleted /\ r.revoked /\ r.updatedAt < now - olderThan
     THEN [r EXCEPT !.deleted = TRUE] ELSE r : r \in rows}

(* Redis drops a key when its time-to-live has run out *)

ExpireKeys(t) ==
    [bl |-> [k \in {k \in DOMAIN blacklist : t < blacklist[k]} |-> blacklist[k]],
     att |-> [k \in {k \in DOMAIN attempts :
                       attempts[k].exp = NoTTL \/ t < attempts[k].exp} |-> attempts[k]]]

----------------------------------------------------------------------------
(* State machine: one action per operation of the service.  loggedOut and *)
(* loggedOutAccess record the refresh tokens and the then-valid access    *)
(* tokens of the Logout calls that returned success.                      *)

NoFail == "none"

Idle == [pc |-> "idle", email |-> "", username |-> "", password |-> ""]

NoUser ==
    [id |-> 0, email |-> "", username |-> "", hash |-> <<>>, active |-> FALSE, role |-> "",
     lastLogin |-> NoTime, deleted |-> FALSE]

LgnIdle == [pc |-> "idle", id |-> "", pw |-> "", user |-> NoUser, tok |-> Garbage, err |-> ""]

RefIdle == [pc |-> "idle", tok |-> Garbage, fail |-> NoFail, late |-> FALSE, err |-> ""]

Init ==
    /\ now = 0
    /\ users = <<>>
    /\ ledger = {}
    /\ blacklist = <<>>
    /\ attempts = <<>>
    /\ issued = {}
    /\ loggedOut = {}
    /\ loggedOutAccess = {}
    /\ reg = [p \in 1..Procs |-> Idle]
    /\ ref = [p \in 1..Procs |-> RefIdle]
    /\ lgn = [p \in 1..Procs |-> LgnIdle]

Apply(r, keep) ==
    /\ users' = r.users
    /\ ledger' = r.ledger
    /\ blacklist' = r.blacklist
    /\ attempts' = r.attempts
    /\ issued' = IF keep /\ r.err = OK /\ r.access # Garbage
                 THEN issued \cup {r.access} ELSE issued
    /\ now' = now

Register(email, username, password, fail, keep) ==
    /\ Len(users) < MaxUsers
    /\ Apply(RegisterOp(email, username, password, fail), keep)
    /\ UNCHANGED <<loggedOut, loggedOutAccess, reg, ref, lgn>>

Login(identifier, password, ip, ua, fail, keep, cap) ==
    /\ GetLoginAttempts(identifier) < cap
    /\ Apply(LoginOp(identifier, password, ip, ua, fail), keep)
    /\ UNCHANGED <<loggedOut, loggedOutAccess, reg, ref, lgn>>

RefreshToken(tok, fail, keep) ==
    /\ Apply(RefreshTokenOp(tok, fail), keep)
    /\ UNCHANGED <<loggedOut, loggedOutAccess, reg, ref, lgn>>

Logout(refreshTok, accessTok, fail) ==
    /\ Apply(LogoutOp(refreshTok, accessTok, fail), FALSE)
    /\ loggedOut' = IF LogoutOp(refreshTok, accessTok, fail).err = OK
                       /\ TokenTaken(ledger, refreshTok)
                    THEN loggedOut \cup {refreshTok} ELSE loggedOut
    /\ loggedOutAccess' = IF LogoutOp(refreshTok, accessTok, fail).err = OK
                             /\ JwtValidateToken(accessTok)
                          THEN loggedOutAccess \cup {accessTok} ELSE loggedOutAccess
    /\ UNCHANGED <<reg, ref, lgn>>

LogoutAll(uid, fail) ==
    /\ Apply(LogoutAllOp(uid, fail), FALSE)
    /\ UNCHANGED <<loggedOut, loggedOutAccess, reg, ref, lgn>>

ChangePassword(uid, oldPassword, newPassword, fail) ==
    /\ Apply(ChangePasswordOp(uid, oldPassword, newPassword, fail), FALSE)
    /\ UNCHANGED <<loggedOut, loggedOutAccess, reg, ref, lgn>>

ValidateToken(tok, fail) ==
    /\ Apply(ValidateTokenOp(tok, fail), FALSE)
    /\ UNCHANGED <<loggedOut, loggedOutAccess, reg, ref, lgn>>

PurgeExpired ==
    /\ ledger' = DeleteExpired(ledger)
    /\ UNCHANGED <<now, users, blacklist, attempts, issued, loggedOut, loggedOutAccess, reg, ref, lgn>>

PurgeRevoked(olderThan) ==
    /\ ledger' = CleanupRevokedTokens(ledger, olderThan)
    /\ UNCHANGED <<now, users, blacklist, attempts, issued, loggedOut, loggedOutAccess, reg, ref, lgn>>

(* A client presents a token it has made or altered itself *)
Present(tok) ==
    /\ issued' = {tok}
    /\ UNCHANGED <<now, users, ledger, blacklist, attempts, loggedOut, loggedOutAccess, reg,
                   ref, lgn>>

Deactivate(uid) ==
    /\ uid \in UserIds
    /\ users' = [users EXCEPT ![uid].active = FALSE]
    /\ UNCHANGED <<now, ledger, blacklist, attempts, issued, loggedOut, loggedOutAccess, reg,
                   ref, lgn>>

DeleteUser(uid) ==
    /\ uid \in LiveIds
    /\ users' = [users EXCEPT ![uid].deleted = TRUE]
    /\ UNCHANGED <<now, ledger, blacklist, attempts, issued, loggedOut, loggedOutAccess, reg,
                   ref, lgn>>

Tick(limit) ==
    /\ now < limit
    /\ now' = now + 1
    /\ blacklist' = ExpireKeys(now + 1).bl
    /\ attempts' = ExpireKeys(now + 1).att
    /\ UNCHANGED <<users, ledger, issued, loggedOut, loggedOutAccess, reg, ref, lgn>>

----------------------------------------------------------------------------
(* Inputs *)

Good == "Pw1!aaaa"
Other == "Pw2!bbbb"
Weak == "pw"
Passwords == {Good, Other}
Accounts == {<<"a@x", "al">>, <<"b@x", "bo">>}
RefreshTokens == {r.token : r \in ledger} \cup {Garbage}
AccessTokens == issued \cup {Garbage}

RefreshFails == {NoFail, "FindByToken", "FindByID"}

ValidateFails == {NoFail, "Exists", "FindByID"}

LedgerLoginFails == {NoFail, "Get", "userRepo.Update", "tokenRepo.Create"}

ChangePasswordFails ==
    {NoFail, "FindByID", "HashPassword", "userRepo.Update", "RevokeAllUserTokens"}

LoginFails ==
    {NoFail, "Get", "FindByEmailOrUsername", "Incr", "Expire", "Del", "userRepo.Update",
     "tokenRepo.Create"}

(* The refresh-token lifecycle: registration, login, refresh, logout,   *)
(* logout-all, password change, ledger maintenance and the clock.  The  *)
(* access tokens handed out are not followed here.                     *)

Next ==
    \/ \E acc \in Accounts : Register(acc[1], acc[2], Good, NoFail, FALSE)
    \/ \E pw \in Passwords, fail \in {NoFail, "tokenRepo.Create"} :
          Login("al", pw, "ip1", "ua1", fail, FALSE, MaxFailed)
    \/ \E tok \in RefreshTokens, fail \in {NoFail, "FindByToken", "FindByID"} :
          RefreshToken(tok, fail, FALSE)
    \/ \E rt \in RefreshTokens, fail \in {NoFail, "RevokeToken"} :
          Logout(rt, Garbage, fail)
    \/ \E uid \in UserIds, fail \in {NoFail, "RevokeAllUserTokens"} : LogoutAll(uid, fail)
    \/ \E uid \in UserIds, old \in Passwords,
          fail \in {NoFail, "FindByID", "HashPassword", "userRepo.Update",
                    "RevokeAllUserTokens"} :
          ChangePassword(uid, old, Other, fail)
    \/ PurgeExpired
    \/ \E olderThan \in {0, 1} : PurgeRevoked(olderThan)
    \/ Tick(MaxTime)

Spec == Init /\ [][Next]_vars

----------------------------------------------------------------------------
(* The ledger alone: the operations that write it, for the claims about  *)
(* which rows an operation leaves as they were.                          *)

NextLedger ==
    \/ \E acc \in Accounts : Register(acc[1], acc[2], Good, NoFail, FALSE)
    \/ \E fail \in LedgerLoginFails :
          Login("al", Good, "ip1", "ua1", fail, FALSE, MaxFailed)
    \/ \E rt \in RefreshTokens, fail \in {NoFail, "RevokeToken"} : Logout(rt, Garbage, fail)
    \/ \E uid \in UserIds, fail \in {NoFail, "RevokeAllUserTokens"} : LogoutAll(uid, fail)
    \/ PurgeRevoked(0)
    \/ Tick(MaxTime)

SpecLedger == Init /\ [][NextLedger]_vars

----------------------------------------------------------------------------
(* Ledger maintenance between live operations: the two purges run at any *)
(* point among registration, login, logout, logout-all and the clock,    *)
(* which runs long enough for refresh tokens to expire.  The number of   *)
(* logins is capped by the size of the ledger.                           *)

NextPurge ==
    \/ Register("a@x", "al", Good, NoFail, FALSE)
    \/ /\ Cardinality(ledger) < MaxRows
       /\ Login("al", Good, "ip1", "ua1", NoFail, FALSE, MaxFailed)
    \/ \E rt \in RefreshTokens : Logout(rt, Garbage, NoFail)
    \/ \E uid \in UserIds : LogoutAll(uid, NoFail)
    \/ PurgeExpired
    \/ PurgeRevoked(0)
    \/ Tick(MaxPurgeTime)

SpecPurge == Init /\ [][NextPurge]_vars

----------------------------------------------------------------------------
(* The token codec on its own: a client presents tokens of any signing   *)
(* method, with or without a signature that verifies, and with any       *)
(* not-before and expiry around the current time.                        *)

Presented ==
    [uid : {1}, email : {"a@x"}, username : {"al"}, role : {"user"}, sub : {"1"},
     iat : {0}, nbf : 0..(MaxTime + 1), exp : 0..(MaxTime + 1),
     alg : {"HS256", "RS256", "none"}, sig : BOOLEAN]

NextCodec ==
    \/ Register("a@x", "al", Good, NoFail, TRUE)
    \/ \E tok \in Presented : Present(tok)
    \/ Tick(MaxTime)

SpecCodec == Init /\ [][NextCodec]_vars

----------------------------------------------------------------------------
(* Login rate limiting: one account, logins for its username and for an  *)
(* unknown identifier with every cache and store failure, deactivation.  *)

RateIds == {"al", "zz"}

NextRate ==
    \/ Register("a@x", "al", Good, NoFail, FALSE)
    \/ \E id \in RateIds, pw \in Passwords, fail \in LoginFails :
          Login(id, pw, "ip1", "ua1", fail, FALSE, MaxCount)
    \/ \E uid \in UserIds : Deactivate(uid)
    \/ Tick(MaxRateTime)

SpecRate == Init /\ [][NextRate]_vars

----------------------------------------------------------------------------
(* Access tokens: the clients keep the access tokens they are handed and *)
(* present them to Logout and ValidateToken.                             *)

NextAccess ==
    \/ \E acc \in Accounts : Register(acc[1], acc[2], Good, NoFail, TRUE)
    \/ Login("al", Good, "ip1", "ua1", NoFail, TRUE, MaxFailed)
    \/ \E tok \in RefreshTokens : RefreshToken(tok, NoFail, TRUE)
    \/ \E rt \in RefreshTokens, at \in AccessTokens, fail \in {NoFail, "RevokeToken", "Set"} :
          Logout(rt, at, fail)
    \/ \E tok \in AccessTokens, fail \in ValidateFails : ValidateToken(tok, fail)
    \/ Tick(MaxTime)

SpecAccess == Init /\ [][NextAccess]_vars

----------------------------------------------------------------------------
(* Password change and logout-all while the clients still hold access    *)
(* tokens issued before them.                                            *)

NextPassword ==
    \/ \E acc \in Accounts : Register(acc[1], acc[2], Good, NoFail, TRUE)
    \/ \E pw \in Passwords : Login("al", pw, "ip1", "ua1", NoFail, TRUE, MaxFailed)
    \/ \E at \in issued :
          Logout([at EXCEPT !.exp = at.iat + RefreshExpiry], at, NoFail)
    \/ \E uid \in UserIds, fail \in {NoFail, "RevokeAllUserTokens"} : LogoutAll(uid, fail)
    \/ \E uid \in UserIds, old \in Passwords, fail \in ChangePasswordFails :
          ChangePassword(uid, old, Other, fail)
    \/ Tick(MaxTime)

SpecPassword == Init /\ [][NextPassword]_vars

----------------------------------------------------------------------------
(* Accounts that are deactivated or deleted while their tokens are still *)
(* in the clients' hands.                                                *)

NextUser ==
    \/ \E acc \in Accounts : Register(acc[1], acc[2], Good, NoFail, TRUE)
    \/ Login("al", Good, "ip1", "ua1", NoFail, FALSE, MaxFailed)
    \/ \E tok \in RefreshTokens : RefreshToken(tok, NoFail, FALSE)
    \/ \E rt \in RefreshTokens : Logout(rt, Garbage, NoFail)
    \/ \E tok \in AccessTokens : ValidateToken(tok, NoFail)
    \/ \E uid \in UserIds : Deactivate(uid)
    \/ \E uid \in UserIds : DeleteUser(uid)
    \/ Tick(MaxUserTime)

SpecUser == Init /\ [][NextUser]_vars

----------------------------------------------------------------------------
(* Registration: whole calls, and calls of concurrent requests that      *)
(* interleave at their store accesses (each query or insert is atomic).  *)

RegStart(p, email, username, password) ==
    /\ reg[p].pc = "idle"
    /\ ValidateEmail(email) /\ ValidateUsername(username)
    /\ ValidatePasswordStrength(password)
    /\ reg' = [reg EXCEPT ![p] = [pc |-> "checkEmail", email |-> email,
                                  username |-> username, password |-> password]]
    /\ UNCHANGED <<now, users, ledger, blacklist, attempts, issued, loggedOut, loggedOutAccess,
                   ref, lgn>>

RegCheckEmail(p) ==
    /\ reg[p].pc = "checkEmail"
    /\ reg' = [reg EXCEPT ![p] = IF ExistsByEmail(reg[p].email) THEN Idle
                                 ELSE [reg[p] EXCEPT !.pc = "checkUsername"]]
    /\ UNCHANGED <<now, users, ledger, blacklist, attempts, issued, loggedOut, loggedOutAccess,
                   ref, lgn>>

RegCheckUsername(p) ==
    /\ reg[p].pc = "checkUsername"
    /\ reg' = [reg EXCEPT ![p] = IF ExistsByUsername(reg[p].username) THEN Idle
                                 ELSE [reg[p] EXCEPT !.pc = "create"]]
    /\ UNCHANGED <<now, users, ledger, blacklist, attempts, issued, loggedOut, loggedOutAccess,
                   ref, lgn>>

RegCreate(p) ==
    /\ reg[p].pc = "create"
    /\ Len(users) < MaxUsers
    /\ IF UniqueViolation(reg[p].email, reg[p].username)
       THEN reg' = [reg EXCEPT ![p] = Idle] /\ users' = users
       ELSE /\ users' = Append(users, NewUser(reg[p].email, reg[p].username, reg[p].password))
            /\ reg' = [reg EXCEPT ![p].pc = "tokens"]
    /\ UNCHANGED <<now, ledger, blacklist, attempts, issued, loggedOut, loggedOutAccess, ref, lgn>>

RegTokens(p) ==
    /\ reg[p].pc = "tokens"
    /\ \E i \in UserIds :
          /\ users[i].email = reg[p].email
          /\ ledger' = generateTokenPair(users[i], "", "", NoFail).ledger
    /\ reg' = [reg EXCEPT ![p] = Idle]
    /\ UNCHANGED <<now, users, blacklist, attempts, issued, loggedOut, loggedOutAccess, ref, lgn>>

Emails == {"a@x", "A@x", "b@x", "bad"}
Usernames == {"al", "AL", "bo", "x"}
RegPasswords == {Good, "weak"}
RaceAccounts == {<<"a@x", "al">>, <<"A@x", "bo">>, <<"b@x", "AL">>}

RegisterFails ==
    {NoFail, "ExistsByEmail", "ExistsByUsername", "HashPassword", "userRepo.Create",
     "tokenRepo.Create"}

NextRegister ==
    \/ \E e \in Emails, u \in Usernames, pw \in RegPasswords, fail \in RegisterFails :
          /\ \A p \in 1..Procs : reg[p].pc = "idle"
          /\ Register(e, u, pw, fail, FALSE)
    \/ \E p \in 1..Procs, acc \in RaceAccounts : RegStart(p, acc[1], acc[2], Good)
    \/ \E p \in 1..Procs : RegCheckEmail(p)
    \/ \E p \in 1..Procs : RegCheckUsername(p)
    \/ \E p \in 1..Procs : RegCreate(p)
    \/ \E p \in 1..Procs : RegTokens(p)

SpecRegister == Init /\ [][NextRegister]_vars

----------------------------------------------------------------------------
(* Refresh calls of concurrent requests, interleaving at their store      *)
(* accesses with each other and with Logout.  Logout writes the ledger in *)
(* one UPDATE; its blacklist write is not read by RefreshToken.  `late`   *)
(* records that the ledger read of the call came after a Logout of the    *)
(* same token had returned success.                                      *)

RefDone(p, err) == [ref EXCEPT ![p].pc = "done", ![p].err = err]

RefStart(p, tok, fail) ==
    /\ ref[p].pc = "idle"
    /\ ref' = IF ~JwtValidateToken(tok)
              THEN [ref EXCEPT ![p] = [pc |-> "done", tok |-> tok, fail |-> fail,
                                       late |-> FALSE, err |-> "invalid refresh token"]]
              ELSE [ref EXCEPT ![p] = [pc |-> "findToken", tok |-> tok, fail |-> fail,
                                       late |-> FALSE, err |-> ""]]
    /\ UNCHANGED <<now, users, ledger, blacklist, attempts, issued, loggedOut,
                   loggedOutAccess, reg, lgn>>

RefFindToken(p) ==
    /\ ref[p].pc = "findToken"
    /\ ref' = [IF ref[p].fail = "FindByToken" \/ FindByToken(ledger, ref[p].tok) = {}
               THEN RefDone(p, "refresh token not found")
               ELSE IF \E r \in FindByToken(ledger, ref[p].tok) : ~IsValid(r)
               THEN RefDone(p, "refresh token is invalid or expired")
               ELSE [ref EXCEPT ![p].pc = "findUser"]
                 EXCEPT ![p].late = ref[p].tok \in loggedOut]
    /\ UNCHANGED <<now, users, ledger, blacklist, attempts, issued, loggedOut,
                   loggedOutAccess, reg, lgn>>

RefFindUser(p) ==
    /\ ref[p].pc = "findUser"
    /\ ref' = IF ref[p].fail = "FindByID" \/ FindByID(ref[p].tok.uid) = 0
              THEN RefDone(p, "user not found")
              ELSE IF ~users[ref[p].tok.uid].active
              THEN RefDone(p, "account is inactive")
              ELSE RefDone(p, OK)
    /\ UNCHANGED <<now, users, ledger, blacklist, attempts, issued, loggedOut,
                   loggedOutAccess, reg, lgn>>

RefReturn(p) ==
    /\ ref[p].pc = "done"
    /\ ref' = [ref EXCEPT ![p] = RefIdle]
    /\ UNCHANGED <<now, users, ledger, blacklist, attempts, issued, loggedOut,
                   loggedOutAccess, reg, lgn>>

NextRefresh ==
    \/ \E acc \in Accounts : Register(acc[1], acc[2], Good, NoFail, FALSE)
    \/ \E tok \in RefreshTokens, fail \in RefreshFails : RefreshToken(tok, fail, FALSE)
    \/ \E p \in 1..Procs, tok \in RefreshTokens, fail \in {NoFail, "FindByToken"} :
          RefStart(p, tok, fail)
    \/ \E p \in 1..Procs : RefFindToken(p)
    \/ \E p \in 1..Procs : RefFindUser(p)
    \/ \E p \in 1..Procs : RefReturn(p)
    \/ \E rt \in RefreshTokens, fail \in {NoFail, "RevokeToken"} : Logout(rt, Garbage, fail)

SpecRefresh == Init /\ [][NextRefresh]_vars

----------------------------------------------------------------------------
(* Login step by step: each action is one access of the cache, the       *)
(* credential store or the ledger, so that calls of several clients and  *)
(* a password change or a deactivation interleave between them.  user    *)
(* is the row as FindByEmailOrUsername read it; the active check and the *)
(* password comparison are made on that copy.                            *)

LgnDone(p, err) == [lgn EXCEPT ![p].pc = "done", ![p].err = err]

LgnStart(p, identifier, password) ==
    /\ lgn[p].pc = "idle"
    /\ GetLoginAttempts(identifier) < MaxCount
    /\ lgn' = IF GetLoginAttempts(identifier) >= RateLimit
              THEN [lgn EXCEPT ![p] = [pc |-> "done", id |-> identifier, pw |-> password,
                                       user |-> NoUser, tok |-> Garbage,
                                       err |-> "too many failed login attempts"]]
              ELSE [lgn EXCEPT ![p] = [pc |-> "find", id |-> identifier, pw |-> password,
                                       user |-> NoUser, tok |-> Garbage, err |-> ""]]
    /\ UNCHANGED <<now, users, ledger, blacklist, attempts, issued, loggedOut,
                   loggedOutAccess, reg, ref>>

LgnFind(p) ==
    /\ lgn[p].pc = "find"
    /\ lgn' = IF FindByEmailOrUsername(lgn[p].id) = 0
              THEN [lgn EXCEPT ![p].pc = "incr"]
              ELSE LET user == users[FindByEmailOrUsername(lgn[p].id)]
                   IN  IF ~user.active THEN LgnDone(p, "account is inactive")
                       ELSE IF ~ComparePassword(user.hash, lgn[p].pw)
                       THEN [lgn EXCEPT ![p].pc = "incr", ![p].user = user]
                       ELSE [lgn EXCEPT ![p].pc = "reset", ![p].user = user]
    /\ UNCHANGED <<now, users, ledger, blacklist, attempts, issued, loggedOut,
                   loggedOutAccess, reg, ref>>

LgnIncr(p) ==
    /\ lgn[p].pc = "incr"
    /\ attempts' = IncrementLoginAttempts(lgn[p].id, NoFail)
    /\ lgn' = LgnDone(p, "invalid credentials")
    /\ UNCHANGED <<now, users, ledger, blacklist, issued, loggedOut, loggedOutAccess, reg,
                   ref>>

LgnReset(p) ==
    /\ lgn[p].pc = "reset"
    /\ attempts' = ResetLoginAttempts(lgn[p].id, NoFail)
    /\ lgn' = [lgn EXCEPT ![p].pc = "save"]
    /\ UNCHANGED <<now, users, ledger, blacklist, issued, loggedOut, loggedOutAccess, reg,
                   ref>>

LgnSave(p) ==
    /\ lgn[p].pc = "save"
    /\ users' = [users EXCEPT ![lgn[p].user.id] = [lgn[p].user EXCEPT !.lastLogin = now]]
    /\ lgn' = [lgn EXCEPT ![p].pc = "tokens", ![p].user.lastLogin = now]
    /\ UNCHANGED <<now, ledger, blacklist, attempts, issued, loggedOut, loggedOutAccess,
                   reg, ref>>

LgnTokens(p) ==
    /\ lgn[p].pc = "tokens"
    /\ LET pair == generateTokenPair(lgn[p].user, "ip1", "ua1", NoFail)
       IN  /\ ledger' = pair.ledger
           /\ lgn' = IF pair.err # OK THEN LgnDone(p, "failed to generate tokens")
                     ELSE [lgn EXCEPT ![p].pc = "done", ![p].err = OK,
                                      ![p].tok = pair.refresh]
    /\ UNCHANGED <<now, users, blacklist, attempts, issued, loggedOut, loggedOutAccess,
                   reg, ref>>

LgnReturn(p) ==
    /\ lgn[p].pc = "done"
    /\ lgn' = [lgn EXCEPT ![p] = LgnIdle]
    /\ UNCHANGED <<now, users, ledger, blacklist, attempts, issued, loggedOut,
                   loggedOutAccess, reg, ref>>

NextLogin ==
    \/ Register("a@x", "al", Good, NoFail, FALSE)
    \/ \E p \in 1..Procs, pw \in {Good, Weak} : LgnStart(p, "al", pw)
    \/ \E p \in 1..Procs : LgnFind(p)
    \/ \E p \in 1..Procs : LgnIncr(p)
    \/ \E p \in 1..Procs : LgnReset(p)
    \/ \E p \in 1..Procs : LgnSave(p)
    \/ \E p \in 1..Procs : LgnTokens(p)
    \/ \E p \in 1..Procs : LgnReturn(p)
    \/ \E uid \in UserIds : ChangePassword(uid, Good, Other, NoFail)
    \/ \E uid \in UserIds : Deactivate(uid)
    \/ Tick(MaxTime)

SpecLogin == Init /\ [][NextLogin]_vars

----------------------------------------------------------------------------
(* One account addressed by its username, by its username in capitals    *)
(* and by its email: the lookup folds case and matches either column,    *)
(* the rate-limit key is the identifier as the caller typed it.          *)

Spellings == {"al", "AL", "a@x"}

NextSpelling ==
    \/ Register("a@x", "al", Good, NoFail, FALSE)
    \/ \E id \in Spellings, pw \in {Good, Weak} :
          Login(id, pw, "ip1", "ua1", NoFail, FALSE, MaxCount)
    \/ Tick(MaxRateTime)

SpecSpelling == Init /\ [][NextSpelling]_vars

----------------------------------------------------------------------------
(* Properties *)

InvalidRefreshToken ==
    {"invalid refresh token", "refresh token not found",
     "refresh token is invalid or expired"}

(* C1: once Logout has returned success for an issued refresh token R,   *)
(* RefreshToken(R) fails with an invalid-refresh-token error in every    *)
(* later state, whatever operations ran in between and whichever store   *)
(* call fails during the refresh.                                        *)
C1_LoggedOutRefreshFails ==
    \A tok \in loggedOut : \A fail \in RefreshFails :
        RefreshTokenOp(tok, fail).err \in InvalidRefreshToken

(* C1 witness: a logged-out refresh token that the codec still accepts,  *)
(* whose owner is active and has logged in again since (another usable   *)
(* row of the same user exists).                                         *)
C1_Witness ==
    \E tok \in loggedOut :
        /\ JwtValidateToken(tok)
        /\ FindByID(tok.uid) # 0 /\ users[tok.uid].active
        /\ \E r \in Live(ledger) : r.uid = tok.uid /\ r.token # tok /\ IsValid(r)
        /\ \E r \in ledger : r.token = tok /\ r.revoked

(* C2: whenever ChangePassword returns success, none of that user's      *)
(* unexpired ledger rows is left with revoked = false.                   *)
C2_ChangePasswordRevokesAll ==
    [][\A uid \in UserIds, old \in Passwords, fail \in ChangePasswordFails :
          (/\ ChangePassword(uid, old, Other, fail)
           /\ ChangePasswordOp(uid, old, Other, fail).err = OK)
          => \A row \in ledger' :
                (row.uid = uid /\ ~row.deleted /\ now < row.expiresAt) => row.revoked]_vars

(* C3: with the attempt counter of an identifier at 5 or more, Login for *)
(* it fails with the too-many-attempts error whatever the password,      *)
(* before the credential store is queried and without changing the       *)
(* counter.                                                              *)
C3_LockedOutLoginRejected ==
    [][\A id \in RateIds, pw \in Passwords, fail \in LoginFails :
          (/\ Login(id, pw, "ip1", "ua1", fail, FALSE, MaxCount)
           /\ GetLoginAttempts(id) >= RateLimit)
          => /\ LoginOp(id, pw, "ip1", "ua1", fail).err = "too many failed login attempts"
             /\ ~LoginOp(id, pw, "ip1", "ua1", fail).queried
             /\ attempts' = attempts]_vars

(* C4: every attempt counter that is present carries a time-to-live that *)
(* ends within the 15-minute window, so no lockout lasts forever.        *)
C4_LockoutEnds ==
    \A id \in DOMAIN attempts :
        attempts[id].exp # NoTTL /\ attempts[id].exp <= now + LoginWindow

(* C5: ValidateToken of a token that is on the blacklist fails with the  *)
(* token-revoked error and never reports the token as valid.             *)
C5_BlacklistedRejected ==
    \A tok \in DOMAIN blacklist : \A fail \in ValidateFails :
        ValidateTokenOp(tok, fail).err = "token has been revoked"

(* C6: an access token that was valid when Logout succeeded with it      *)
(* never passes ValidateToken again.                                     *)
C6_LoggedOutAccessNeverValid ==
    \A tok \in loggedOutAccess : \A fail \in ValidateFails :
        ValidateTokenOp(tok, fail).err # OK

(* C7: a Login of an active user with the correct password, not rate     *)
(* limited and with every store call succeeding, returns a token pair    *)
(* whose refresh token is in the ledger, also when another login or the  *)
(* registration of that user fell into the same clock second.            *)
C7_CorrectLoginSucceeds ==
    [][\A pw \in Passwords :
          (/\ Login("al", pw, "ip1", "ua1", NoFail, FALSE, MaxFailed)
           /\ FindByEmailOrUsername("al") # 0
           /\ users[FindByEmailOrUsername("al")].active
           /\ ComparePassword(users[FindByEmailOrUsername("al")].hash, pw)
           /\ GetLoginAttempts("al") < RateLimit)
          => /\ LoginOp("al", pw, "ip1", "ua1", NoFail).err = OK
             /\ \E row \in ledger' :
                   /\ row.token = LoginOp("al", pw, "ip1", "ua1", NoFail).refresh
                   /\ row.uid = FindByEmailOrUsername("al")]_vars

(* C8: no two user records have emails, or usernames, that are equal     *)
(* ignoring letter case.                                                 *)
C8_CaseInsensitiveUnique ==
    \A i \in UserIds, j \in UserIds :
        i # j => /\ ToLower(users[i].email) # ToLower(users[j].email)
                 /\ ToLower(users[i].username) # ToLower(users[j].username)

EmailTaken(email) == \E i \in LiveIds : ToLower(users[i].email) = ToLower(email)

UsernameTaken(username) ==
    \E i \in LiveIds : ToLower(users[i].username) = ToLower(username)

(* C9: a Register call with well-formed input whose email, compared      *)
(* case-insensitively, belongs to an existing user fails with the        *)
(* duplicate-email error (when the existence query answers); with a free *)
(* email and a taken username it fails with the duplicate-username       *)
(* error; the email check decides first; and in either case the call     *)
(* fails and creates no user record and no ledger row.                   *)
C9_DuplicateRejected ==
    \A e \in Emails, u \in Usernames, pw \in RegPasswords, fail \in RegisterFails :
        LET r == RegisterOp(e, u, pw, fail)
        IN  (ValidateEmail(e) /\ ValidateUsername(u) /\ ValidatePasswordStrength(pw)) =>
              /\ (EmailTaken(e) /\ fail # "ExistsByEmail")
                    => r.err = "email already registered"
              /\ (~EmailTaken(e) /\ UsernameTaken(u)
                    /\ fail \notin {"ExistsByEmail", "ExistsByUsername"})
                    => r.err = "username already taken"
              /\ (EmailTaken(e) \/ UsernameTaken(u))
                    => (r.err # OK /\ r.users = users /\ r.ledger = ledger)

(* C9 witness: a registered user "a@x"/"al" against whom the case        *)
(* variants "A@x" and "AL" are rejected, the email first.                *)
C9_Witness ==
    /\ \E i \in UserIds : users[i].email = "a@x" /\ users[i].username = "al"
    /\ RegisterOp("A@x", "AL", Good, NoFail).err = "email already registered"
    /\ RegisterOp("b@x", "AL", Good, NoFail).err = "username already taken"

(* C10: whenever Register returns an error, the credential store and the *)
(* ledger are as they were before the call.                              *)
C10_FailedRegisterLeavesNothing ==
    [][\A e \in Emails, u \in Usernames, pw \in RegPasswords, fail \in RegisterFails :
          (Register(e, u, pw, fail, FALSE) /\ RegisterOp(e, u, pw, fail).err # OK)
          => (users' = users /\ ledger' = ledger)]_vars

(* C11: in every interleaving of Logout(R, _) and RefreshToken(R): a     *)
(* Logout that returns success leaves R's row revoked and every other    *)
(* row as it was, and R stays revoked; no step of a refresh call changes *)
(* the ledger; a refresh call whose ledger read came after the revoke    *)
(* ends with an invalid-refresh-token error; and every refresh call     *)
(* ends either with success or with an invalid-refresh-token error.      *)
C11_LogoutRefreshRace ==
    [][/\ \A rt \in RefreshTokens, fail \in {NoFail, "RevokeToken"} :
             (Logout(rt, Garbage, fail) /\ LogoutOp(rt, Garbage, fail).err = OK)
             => /\ \A r \in ledger : r.token # rt => r \in ledger'
                /\ \A r \in ledger' : r.token = rt => r.revoked
                /\ {r.token : r \in ledger'} = {r.token : r \in ledger}
       /\ (\E p \in 1..Procs : ref'[p] # ref[p]) => ledger' = ledger
       /\ \A tok \in loggedOut' : \A r \in ledger' : r.token = tok => r.revoked
       /\ \A p \in 1..Procs :
             ref'[p].pc = "done"
             => /\ ref'[p].late => ref'[p].err \in InvalidRefreshToken
                /\ ref'[p].err \in InvalidRefreshToken \cup {OK}]_vars

(* C11 witness: two refresh calls on one logged-out token have ended, the *)
(* one that read the ledger before the revoke with an access token, the  *)
(* one that read it after with the invalid-or-expired error, and another *)
(* row of the ledger is still usable.                                    *)
C11_Witness ==
    \E p \in 1..Procs, q \in 1..Procs :
        /\ ref[p].pc = "done" /\ ref[q].pc = "done" /\ ref[p].tok = ref[q].tok
        /\ ref[p].tok \in loggedOut
        /\ ref[p].err = OK /\ ~ref[p].late
        /\ ref[q].err = "refresh token is invalid or expired" /\ ref[q].late
        /\ \E r \in ledger : r.token # ref[p].tok /\ IsValid(r)

Usable(tok) ==
    /\ JwtValidateToken(tok)
    /\ \E r \in FindByToken(ledger, tok) : IsValid(r)
    /\ FindByID(tok.uid) # 0 /\ users[tok.uid].active

(* C12: RefreshToken never changes the ledger, as one call or as the     *)
(* steps of concurrent calls; with every store call answering, a call on *)
(* a usable refresh token succeeds and returns an access token, the      *)
(* token is as usable after the call as before, and a concurrent call    *)
(* whose ledger read was not preceded by a Logout of the token succeeds. *)
C12_RefreshLeavesLedger ==
    [][/\ \A tok \in RefreshTokens, fail \in RefreshFails :
             RefreshToken(tok, fail, FALSE) => (ledger' = ledger /\ users' = users)
       /\ (\E p \in 1..Procs : ref'[p] # ref[p]) => (ledger' = ledger /\ users' = users)
       /\ (\A tok \in RefreshTokens :
              Usable(tok) => /\ RefreshTokenOp(tok, NoFail).err = OK
                             /\ RefreshTokenOp(tok, NoFail).access # Garbage
                             /\ RefreshTokenOp(tok, NoFail).ledger = ledger)'
       /\ \A p \in 1..Procs :
             (ref'[p].pc = "done" /\ ~ref'[p].late /\ ref'[p].fail = NoFail
                /\ ref'[p].tok # Garbage)
             => ref'[p].err = OK]_vars

(* C12 witness: one refresh call on a usable token has returned an       *)
(* access token while a second call on the same token is between its     *)
(* ledger read and its user lookup, and the token is still usable.       *)
C12_Witness ==
    \E p \in 1..Procs, q \in 1..Procs :
        /\ p # q /\ ref[p].tok = ref[q].tok /\ Usable(ref[p].tok)
        /\ ref[p].pc = "done" /\ ref[p].err = OK
        /\ ref[q].pc = "findUser"

(* C13: RefreshToken returns an access token only if the token verifies  *)
(* under the codec, the ledger holds a row for it that is not revoked    *)
(* and not past its expiry, and the owning user exists and is active;    *)
(* otherwise it returns an error, mints nothing and changes nothing.     *)
C13_RefreshOnlyIfUsable ==
    \A tok \in RefreshTokens \cup AccessTokens : \A fail \in RefreshFails :
        LET r == RefreshTokenOp(tok, fail)
        IN  /\ r.err = OK
                => /\ tok.sig /\ now < tok.exp
                   /\ \E row \in ledger :
                         /\ row.token = tok /\ ~row.deleted
                         /\ ~row.revoked /\ now < row.expiresAt
                   /\ tok.uid \in UserIds
                   /\ ~users[tok.uid].deleted /\ users[tok.uid].active
                   /\ r.access # Garbage
            /\ r.err # OK => r.access = Garbage
            /\ r.ledger = ledger /\ r.users = users /\ r.blacklist = blacklist

(* C13 witness: of three refresh tokens that all verify under the codec, *)
(* one is refreshed and the others are refused, one for a revoked row    *)
(* and one for a deactivated owner.                                      *)
C13_Witness ==
    /\ \E tok \in RefreshTokens : RefreshTokenOp(tok, NoFail).err = OK
    /\ \E tok \in RefreshTokens :
          /\ JwtValidateToken(tok) /\ users[tok.uid].active /\ ~users[tok.uid].deleted
          /\ RefreshTokenOp(tok, NoFail).err = "refresh token is invalid or expired"
    /\ \E tok \in RefreshTokens :
          /\ JwtValidateToken(tok) /\ \E r \in FindByToken(ledger, tok) : IsValid(r)
          /\ ~users[tok.uid].deleted
          /\ RefreshTokenOp(tok, NoFail).err = "account is inactive"

(* C14: while the user named by an access token's claims is deleted or   *)
(* deactivated, ValidateToken of that token fails; for a token that is   *)
(* unexpired and not blacklisted it fails with user-not-found for a      *)
(* deleted user and with account-inactive for a deactivated one.         *)
C14_DeactivationTakesEffect ==
    \A tok \in issued : \A fail \in ValidateFails :
        LET e == ValidateTokenOp(tok, fail).err
        IN  (tok.uid \in UserIds /\ (users[tok.uid].deleted \/ ~users[tok.uid].active))
            => /\ e # OK
               /\ (JwtValidateToken(tok) /\ ~IsTokenBlacklisted(tok))
                     => /\ e \in {"user not found", "account is inactive"}
                        /\ users[tok.uid].deleted => e = "user not found"
                        /\ (~users[tok.uid].deleted /\ fail # "FindByID")
                              => e = "account is inactive"

(* C14 witness: two access tokens, unexpired and not blacklisted, one of *)
(* a deleted user and one of a deactivated user.                         *)
C14_Witness ==
    /\ \E tok \in issued :
          /\ JwtValidateToken(tok) /\ ~IsTokenBlacklisted(tok)
          /\ users[tok.uid].deleted
          /\ ValidateTokenOp(tok, NoFail).err = "user not found"
    /\ \E tok \in issued :
          /\ JwtValidateToken(tok) /\ ~IsTokenBlacklisted(tok)
          /\ ~users[tok.uid].deleted /\ ~users[tok.uid].active
          /\ ValidateTokenOp(tok, NoFail).err = "account is inactive"

(* C15: a Logout with a refresh token that an earlier Logout already     *)
(* revoked, or with one that is not in the ledger, returns success and   *)
(* leaves the ledger exactly as it was.                                  *)
C15_RepeatedLogoutChangesNothing ==
    [][\A rt \in RefreshTokens :
          (/\ rt \in loggedOut \/ ~TokenTaken(ledger, rt)
           /\ Logout(rt, Garbage, NoFail))
          => /\ LogoutOp(rt, Garbage, NoFail).err = OK
             /\ ledger' = ledger]_vars

(* C15, amended: such a Logout returns success unless the ledger update  *)
(* itself fails, in which case it returns the error and changes nothing; *)
(* it changes no row's owner, token, expiry, revoked flag or deletion    *)
(* mark, but it sets updated_at of the token's row, when that row is     *)
(* still in the ledger, to the time of the repeated call.                *)
C15_RepeatedLogoutRestampsRow ==
    [][/\ (\A rt \in loggedOut \cup {Garbage} :
              /\ LogoutOp(rt, Garbage, NoFail).err = OK
              /\ LogoutOp(rt, Garbage, "RevokeToken").err # OK
              /\ LogoutOp(rt, Garbage, "RevokeToken").ledger = ledger)'
       /\ \A rt \in RefreshTokens, fail \in {NoFail, "RevokeToken"} :
             (/\ rt \in loggedOut \/ ~TokenTaken(ledger, rt)
              /\ Logout(rt, Garbage, fail))
             => ledger' = {IF r.token = rt /\ ~r.deleted /\ fail = NoFail
                           THEN [r EXCEPT !.updatedAt = now] ELSE r : r \in ledger}]_vars

(* C15 witness: a refresh token whose Logout returned success at an      *)
(* earlier time and whose row is still in the ledger; a second Logout    *)
(* with it returns success and yields a different ledger.                *)
C15_Witness ==
    \E tok \in loggedOut :
        /\ \E r \in FindByToken(ledger, tok) : r.revoked /\ r.updatedAt < now
        /\ LogoutOp(tok, Garbage, NoFail).err = OK
        /\ LogoutOp(tok, Garbage, NoFail).ledger # ledger

(* C16: a Login that returns success leaves every row of the ledger as   *)
(* it was and adds exactly one row, the one of the refresh token it      *)
(* returns, unrevoked and owned by the user; every refresh token that    *)
(* was usable before the Login is usable after it.                       *)
C16_LoginRevokesNothing ==
    [][\A fail \in LedgerLoginFails :
          LET r == LoginOp("al", Good, "ip1", "ua1", fail)
          IN  (/\ now' = now /\ loggedOut' = loggedOut
               /\ r.err = OK
               /\ Login("al", Good, "ip1", "ua1", fail, FALSE, MaxFailed))
              => /\ ledger \subseteq ledger'
                 /\ ledger' \ ledger =
                       {[uid |-> FindByEmailOrUsername("al"), token |-> r.refresh,
                         expiresAt |-> now + RefreshExpiry, revoked |-> FALSE,
                         ip |-> "ip1", ua |-> "ua1", updatedAt |-> now,
                         deleted |-> FALSE]}
                 /\ \A tok \in RefreshTokens : Usable(tok) => Usable(tok)']_vars

(* C16 witness: the user has logged in at the present time and holds two *)
(* usable refresh tokens, the one of that login and an older one.        *)
C16_Witness ==
    \E i \in UserIds :
        /\ users[i].lastLogin = now
        /\ \E r1 \in ledger, r2 \in ledger :
              /\ r1.uid = i /\ r2.uid = i
              /\ r1.token.iat < now /\ r2.token.iat = now
              /\ Usable(r1.token) /\ Usable(r2.token)

(* C18: after a LogoutAll that returns success no row of the ledger      *)
(* owned by that user is unrevoked and RefreshToken fails for every one  *)
(* of the user's refresh tokens; the rows of other users are as they     *)
(* were; and a further LogoutAll for the user returns success and        *)
(* changes nothing.                                                      *)
C18_LogoutAllRevokesAll ==
    [][\A uid \in UserIds, fail \in {NoFail, "RevokeAllUserTokens"} :
          LET r == LogoutAllOp(uid, fail)
          IN  (/\ now' = now /\ users' = users /\ loggedOut' = loggedOut
               /\ r.err = OK
               /\ LogoutAll(uid, fail))
              => /\ \A row \in ledger' : (row.uid = uid /\ ~row.deleted) => row.revoked
                 /\ {row \in ledger' : row.uid # uid} = {row \in ledger : row.uid # uid}
                 /\ {row.token : row \in ledger'} = {row.token : row \in ledger}
                 /\ (\A tok \in RefreshTokens, f \in RefreshFails :
                        tok.uid = uid => RefreshTokenOp(tok, f).err # OK)'
                 /\ (LogoutAllOp(uid, NoFail).err = OK)'
                 /\ (LogoutAllOp(uid, NoFail).ledger = ledger)']_vars

(* C18 witness: a user with two rows in the ledger, both revoked by      *)
(* LogoutAll (neither token was given to a Logout) and both refused by   *)
(* RefreshToken, next to a usable row of another user.                   *)
C18_Witness ==
    \E r1 \in ledger, r2 \in ledger, r3 \in ledger :
        /\ r1.uid = r2.uid /\ r1.token # r2.token /\ r3.uid # r1.uid
        /\ r1.revoked /\ r2.revoked
        /\ r1.token \notin loggedOut /\ r2.token \notin loggedOut
        /\ JwtValidateToken(r1.token) /\ RefreshTokenOp(r1.token, NoFail).err # OK
        /\ JwtValidateToken(r2.token) /\ RefreshTokenOp(r2.token, NoFail).err # OK
        /\ Usable(r3.token)

(* C17: ChangePassword and LogoutAll leave the blacklist as it was, and  *)
(* every access token that passed ValidateToken before either of them    *)
(* passes it after.                                                      *)
C17_AccessTokensSurvive ==
    [][(/\ now' = now /\ loggedOut' = loggedOut /\ issued' = issued
        /\ attempts' = attempts /\ Len(users') = Len(users)
        /\ \/ \E uid \in UserIds, fail \in {NoFail, "RevokeAllUserTokens"} :
                 LogoutAll(uid, fail)
           \/ \E uid \in UserIds, old \in Passwords, fail \in ChangePasswordFails :
                 ChangePassword(uid, old, Other, fail))
       => /\ blacklist' = blacklist
          /\ \A tok \in issued, f \in ValidateFails :
                ValidateTokenOp(tok, f).err = OK => (ValidateTokenOp(tok, f).err = OK)']_vars

(* C17 witness: a user whose password has been changed and whose ledger  *)
(* rows are all revoked without any Logout, holding an access token that *)
(* still passes ValidateToken.                                           *)
C17_Witness ==
    \E i \in UserIds :
        /\ users[i].hash = HashPassword(Other)
        /\ \E row \in ledger : row.uid = i
        /\ \A row \in ledger : row.uid = i => (row.revoked /\ row.token \notin loggedOut)
        /\ \E tok \in issued : tok.uid = i /\ ValidateTokenOp(tok, NoFail).err = OK

(* C19: a Login for an existing but inactive account, whose identifier   *)
(* is not locked out (the locked-out Login is C3's case), fails with the *)
(* account-inactive error whatever the password, leaves the attempt      *)
(* counters as they were, issues no token and leaves last-login alone.   *)
C19_InactiveLoginLeavesCounter ==
    \A id \in RateIds, pw \in Passwords, fail \in LoginFails :
        LET i == FindByEmailOrUsername(id)
            r == LoginOp(id, pw, "ip1", "ua1", fail)
        IN  (i # 0 /\ ~users[i].active /\ GetLoginAttempts(id) < RateLimit)
            => /\ r.err = "account is inactive"
               /\ r.attempts = attempts
               /\ r.access = Garbage /\ r.refresh = Garbage
               /\ r.ledger = ledger
               /\ r.users = users

(* C20: every Login that ends in an authentication failure (unknown      *)
(* identifier, inactive account or wrong password) leaves the            *)
(* identifier's attempt counter one higher than it found it.  Stated     *)
(* for Logins whose collaborators all answer.                            *)
C20_FailedLoginIncrements ==
    \A id \in RateIds, pw \in Passwords :
        LET r == LoginOp(id, pw, "ip1", "ua1", NoFail)
        IN  r.err \in {"invalid credentials", "account is inactive"}
            => /\ id \in DOMAIN r.attempts
               /\ r.attempts[id].count = GetLoginAttempts(id) + 1

CountIn(att, id) == IF id \in DOMAIN att THEN att[id].count ELSE 0

(* C21: for a password that does not authenticate, Login on an           *)
(* identifier that matches a user and Login on an identifier that        *)
(* matches no user, from equal counters, return the same error and move  *)
(* their counters by the same amount, whether the user is active or not. *)
C21_LoginHidesExistence ==
    \A known \in RateIds, unknown \in RateIds, pw \in Passwords :
        LET i == FindByEmailOrUsername(known)
            rk == LoginOp(known, pw, "ip1", "ua1", NoFail)
            ru == LoginOp(unknown, pw, "ip1", "ua1", NoFail)
        IN  (/\ i # 0 /\ FindByEmailOrUsername(unknown) = 0
             /\ ~ComparePassword(users[i].hash, pw)
             /\ GetLoginAttempts(known) = GetLoginAttempts(unknown))
            => /\ rk.err = ru.err
               /\ CountIn(rk.attempts, known) - GetLoginAttempts(known)
                  = CountIn(ru.attempts, unknown) - GetLoginAttempts(unknown)

(* C22: a Login that returns success leaves the identifier without an    *)
(* attempt counter, stamps the user's last-login with the current time,  *)
(* adds exactly one ledger row (owned by the user, not revoked, expiring *)
(* with the refresh token, carrying the supplied IP and user agent), and *)
(* the refresh token it returns is accepted by RefreshToken at once.     *)
C22_SuccessfulLoginEffects ==
    [][\A id \in RateIds, pw \in Passwords, fail \in LoginFails :
          LET r == LoginOp(id, pw, "ip1", "ua1", fail)
              i == FindByEmailOrUsername(id)
          IN  (/\ now' = now
               /\ r.err = OK
               /\ Login(id, pw, "ip1", "ua1", fail, FALSE, MaxCount))
              => /\ CountIn(attempts', id) = 0
                 /\ users'[i].lastLogin = now
                 /\ \E row \in ledger' \ ledger :
                       /\ ledger' = ledger \cup {row}
                       /\ row.uid = i /\ ~row.revoked
                       /\ row.token = r.refresh
                       /\ row.expiresAt = r.refresh.exp
                       /\ row.ip = "ip1" /\ row.ua = "ua1"
                 /\ \E tok \in {r.refresh} : (RefreshTokenOp(tok, NoFail).err = OK)']_vars

AuthenticationErrors ==
    {"invalid credentials", "account is inactive", "too many failed login attempts",
     "invalid current password", "user not found", "token has been revoked",
     "failed to parse token"}

(* C23: when the first store or cache call of Login (for a registered    *)
(* identifier), Logout, ChangePassword or ValidateToken (of a token the  *)
(* service has signed) fails in transport, the operation neither reports *)
(* success nor answers with an authentication error.                     *)
C23_TransportFailureNotSwallowed ==
    /\ \A pw \in Passwords :
          FindByEmailOrUsername("al") # 0
          => LoginOp("al", pw, "ip1", "ua1", "Get").err \notin AuthenticationErrors \cup {OK}
    /\ \A rt \in RefreshTokens :
          LogoutOp(rt, Garbage, "RevokeToken").err \notin AuthenticationErrors \cup {OK}
    /\ \A uid \in UserIds, old \in Passwords :
          ChangePasswordOp(uid, old, Other, "FindByID").err
              \notin AuthenticationErrors \cup {OK}
    /\ \A tok \in {row.token : row \in ledger} :
          ValidateTokenOp(tok, "Exists").err \notin AuthenticationErrors \cup {OK}

(* C24: a Login that returns an error leaves the user records (last-     *)
(* login included), the ledger and the blacklist as they were; the only  *)
(* change it may make is to raise the identifier's attempt counter by    *)
(* one, so the counter is never reset by a Login that fails.             *)
C24_FailedLoginLeavesNoPartialState ==
    \A id \in RateIds, pw \in Passwords, fail \in {NoFail, "tokenRepo.Create"} :
        LET r == LoginOp(id, pw, "ip1", "ua1", fail)
        IN  r.err # OK
            => /\ r.users = users
               /\ r.ledger = ledger
               /\ r.blacklist = blacklist
               /\ CountIn(r.attempts, id) \in {GetLoginAttempts(id), GetLoginAttempts(id) + 1}
               /\ \A k \in (DOMAIN attempts \cup DOMAIN r.attempts) \ {id} :
                     k \in DOMAIN attempts /\ k \in DOMAIN r.attempts
                     /\ r.attempts[k] = attempts[k]

(* C25: a ChangePassword that fails because the user is unknown, the old *)
(* password does not match or the new password is too weak changes       *)
(* nothing: every stored hash is as before and no ledger row is revoked. *)
C25_RejectedChangePasswordChangesNothing ==
    \A uid \in 0..(MaxUsers + 1), old \in Passwords, new \in {Other, Weak},
       fail \in ChangePasswordFails :
        LET r == ChangePasswordOp(uid, old, new, fail)
        IN  r.err \in {"user not found", "invalid current password", "weak password"}
            => /\ r.users = users
               /\ r.ledger = ledger
               /\ r.blacklist = blacklist /\ r.attempts = attempts

(* C25 witness: a user holding an unrevoked refresh token, for whom a    *)
(* wrong old password and a weak new password are each rejected, next to *)
(* an id that matches no user.                                           *)
C25_Witness ==
    \E uid \in UserIds, old \in Passwords :
        /\ \E row \in ledger : row.uid = uid /\ ~row.revoked
        /\ users[uid].hash = HashPassword(Other)
        /\ ChangePasswordOp(uid, old, Other, NoFail).err = "invalid current password"
        /\ ChangePasswordOp(uid, Other, Weak, NoFail).err = "weak password"
        /\ ChangePasswordOp(Len(users) + 1, old, Other, NoFail).err = "user not found"

(* C26: Logout with an access token the codec rejects (expired,          *)
(* malformed or empty) returns success unless the ledger update itself   *)
(* fails, leaves every live ledger row of the refresh token revoked and  *)
(* the other rows alone, and leaves the blacklist as it was.             *)
C26_LogoutWithUnusableAccessToken ==
    \A rt \in RefreshTokens, at \in AccessTokens, fail \in {NoFail, "Set"} :
        LET r == LogoutOp(rt, at, fail)
        IN  ~JwtValidateToken(at)
            => /\ r.err = OK
               /\ r.blacklist = blacklist
               /\ \A row \in r.ledger : (row.token = rt /\ ~row.deleted) => row.revoked
               /\ {row \in r.ledger : row.token # rt} = {row \in ledger : row.token # rt}
               /\ {row.token : row \in r.ledger} = {row.token : row \in ledger}

(* C26 witness: a refresh token with an unrevoked row, next to an issued *)
(* access token of the same user that has expired and an earlier Logout  *)
(* that blacklisted nothing.                                             *)
C26_Witness ==
    \E rt \in RefreshTokens, at \in issued :
        /\ \E row \in ledger : row.token = rt /\ ~row.revoked /\ ~row.deleted
        /\ at.uid = rt.uid /\ at.sig /\ at.exp <= now
        /\ loggedOut # {} /\ loggedOutAccess = {}
        /\ LogoutOp(rt, at, NoFail).err = OK
        /\ LogoutOp(rt, at, NoFail).ledger # ledger

(* C27: a deadline is put on an identifier's counter only by the         *)
(* increment that creates it with count 1, and then it is the end of the *)
(* 15-minute window that starts there; no later increment (nor any other *)
(* call) moves the deadline of a counter that exists, so a run of failed *)
(* logins never pushes the end of its window back.                       *)
C27_WindowSetOnFirstAttemptOnly ==
    [][\A id \in RateIds :
          (now' = now /\ id \in DOMAIN attempts')
          => IF id \in DOMAIN attempts
             THEN attempts'[id].exp = attempts[id].exp
             ELSE /\ attempts'[id].count = 1
                  /\ attempts'[id].exp \in {now + LoginWindow, NoTTL}]_vars

(* C27 witness: a counter that has been raised beyond 1 at a time after  *)
(* its first failure and whose deadline is still that of the first       *)
(* failure, less than a full window away.                                *)
C27_Witness ==
    \E id \in DOMAIN attempts :
        /\ attempts[id].count >= 3
        /\ attempts[id].exp # NoTTL
        /\ attempts[id].exp < now + LoginWindow

Spent(tok) ==
    \E row \in ledger : row.token = tok /\ (row.revoked \/ row.expiresAt <= now)

(* C28: no step turns a ledger row's revoked flag from true to false,    *)
(* moves its expires_at, or brings back a row that was removed; and a    *)
(* refresh token whose row is revoked or expired stays so and is         *)
(* rejected by RefreshToken, whatever else fails, from then on.          *)
C28_RevokedAndExpiredAreTerminal ==
    [][/\ \A row \in ledger :
             \E next \in ledger' :
                /\ next.token = row.token /\ next.uid = row.uid
                /\ next.expiresAt = row.expiresAt
                /\ row.revoked => next.revoked
                /\ row.deleted => next.deleted
       /\ \A tok \in {row.token : row \in ledger} :
             Spent(tok)
             => (Spent(tok) /\ \A f \in RefreshFails : RefreshTokenOp(tok, f).err # OK)']_vars

(* C28 witness: a refresh token that was logged out and whose row has    *)
(* since been purged, with the user logged in again afterwards.          *)
C28_Witness ==
    \E tok \in loggedOut :
        /\ \E row \in ledger : row.token = tok /\ row.revoked /\ row.deleted
        /\ \E row \in ledger : row.uid = tok.uid /\ ~row.revoked /\ row.token.iat > tok.iat
        /\ RefreshTokenOp(tok, NoFail).err = "refresh token not found"

(* C29: a run of DeleteExpired removes only rows whose expires_at lies   *)
(* before now, a run of CleanupRevokedTokens only rows that are revoked, *)
(* and neither changes whether a RefreshToken call succeeds, for any     *)
(* token and any failure of its collaborators.                           *)
C29_PurgeRemovesOnlyUnusableRows ==
    [][(now' = now /\ users' = users /\ (PurgeExpired \/ PurgeRevoked(0)))
       => /\ \A row \in ledger :
                row \notin ledger'
                => /\ ~row.deleted
                   /\ [row EXCEPT !.deleted = TRUE] \in ledger'
                   /\ ~IsValid(row)
                   /\ PurgeExpired => row.expiresAt < now
                   /\ PurgeRevoked(0) => row.revoked
          /\ \A row \in ledger' : row \in ledger \/ [row EXCEPT !.deleted = FALSE] \in ledger
          /\ \A tok \in RefreshTokens, f \in RefreshFails :
                (RefreshTokenOp(tok, f).err = OK) <=> (RefreshTokenOp(tok, f).err = OK)']_vars

(* C29 witness: purged rows, one revoked and one expired, in a ledger    *)
(* that still holds a refresh token RefreshToken accepts.                *)
C29_Witness ==
    /\ \E row \in ledger : row.deleted /\ row.revoked /\ now < row.expiresAt
    /\ \E row \in ledger : row.deleted /\ ~row.revoked /\ row.expiresAt < now
    /\ \E tok \in RefreshTokens : RefreshTokenOp(tok, NoFail).err = OK

C31_CodecAcceptsOnlyValidTokens ==
    \A tok \in issued :
        /\ JwtValidateToken(tok)
           => /\ tok.alg \in HMAC /\ tok.sig
              /\ tok.nbf <= now /\ now < tok.exp
        /\ tok.exp <= now
           => /\ ~JwtValidateToken(tok)
              /\ \A f \in ValidateFails : ValidateTokenOp(tok, f).err = "failed to parse token"
              /\ \A f \in RefreshFails : RefreshTokenOp(tok, f).err = "invalid refresh token"
        /\ (tok.alg \notin HMAC \/ ~tok.sig \/ now < tok.nbf)
           => \A f \in ValidateFails : ValidateTokenOp(tok, f).err = "failed to parse token"

(* C31 witness: a presented token whose signature verifies and whose     *)
(* time window is open, but whose signing method is not HMAC, next to    *)
(* the registered user it names.                                         *)
C31_Witness ==
    \E tok \in issued :
        /\ tok.alg = "none" /\ tok.sig /\ tok.nbf <= now /\ now < tok.exp
        /\ FindByID(tok.uid) # 0
        /\ ValidateTokenOp(tok, NoFail).err = "failed to parse token"

(* C32: a request that carries a blacklisted access token to a protected *)
(* route is turned away: GetMe does not answer, and neither             *)
(* ChangePassword nor Logout is run for it.                              *)
C32_BlacklistedTokenReachesNothing ==
    \A tok \in DOMAIN blacklist :
        /\ GetMeHandler(tok, NoFail).err # OK
        /\ \A old \in Passwords :
              ChangePasswordHandler(tok, old, Other, NoFail).err = "Invalid or expired token"
        /\ \A rt \in RefreshTokens :
              LogoutHandler(tok, rt, NoFail).err = "Invalid or expired token"

(* C33: a Login modifies no field of the user record other than the      *)
(* last-login timestamp: the step of a Login that writes the user row    *)
(* leaves the password hash and the active flag that a concurrent        *)
(* ChangePassword or deactivation has persisted as they are in the store. *)
C33_LoginWritesOnlyLastLogin ==
    [][\A p \in 1..Procs :
          lgn[p].pc = "save" /\ lgn'[p].pc = "tokens"
             => \A i \in UserIds : /\ users'[i].hash = users[i].hash
                                   /\ users'[i].active = users[i].active]_vars

(* C34: once ChangePassword has returned success (the stored hash is no  *)
(* longer the one a Login compared its password with), the refresh token *)
(* that this Login has handed out is not usable, also when the Login was *)
(* between its password check and the insert of its ledger row while     *)
(* ChangePassword ran.                                                   *)
C34_NoSessionFromOldPassword ==
    \A p \in 1..Procs :
        /\ lgn[p].pc = "done"
        /\ lgn[p].err = OK
        /\ users[lgn[p].user.id].hash # lgn[p].user.hash
        => RefreshTokenOp(lgn[p].tok, NoFail).err # OK

(* C35: for every identifier the attempt counter never exceeds the       *)
(* threshold of 5, under any interleaving of concurrent Login calls.     *)
C35_CounterNeverExceedsLimit ==
    \A id \in DOMAIN attempts : attempts[id].count <= RateLimit

(* The failed password comparisons on record for a set of identifiers:   *)
(* every increment of a counter whose identifier finds an active user    *)
(* follows one comparison of a password with that user's hash.           *)
RECURSIVE FailedCompares(_)
FailedCompares(ids) ==
    IF ids = {} THEN 0
    ELSE LET id == CHOOSE x \in ids : TRUE
         IN  attempts[id].count + FailedCompares(ids \ {id})

(* C36: for one user that has not logged in, the unexpired counters of   *)
(* all the identifiers that find this user (all of them begun within the *)
(* current 15-minute window) add up to at most 5 failed comparisons,     *)
(* whichever spellings the callers used.                                 *)
C36_CompareBudgetPerUser ==
    \A i \in LiveIds :
        users[i].lastLogin = NoTime
        => FailedCompares({id \in DOMAIN attempts : FindByEmailOrUsername(id) = i})
              <= RateLimit

(* C37: POST /logout with access token A and refresh token R revokes a   *)
(* ledger row only if the row is owned by the user A was issued to: a    *)
(* usable row of another user is in the ledger unchanged afterwards.     *)
C37_LogoutRevokesOwnRowsOnly ==
    \A bearer \in issued, row \in ledger :
        /\ AuthMiddleware(bearer)
        /\ row.uid # bearer.uid
        /\ IsValid(row)
        => row \in LogoutHandler(bearer, row.token, NoFail).ledger

(* C38: Logout of one session leaves the other sessions of the user      *)
(* alone: when Logout(R1, A1) succeeds, A1 being the access token that   *)
(* RefreshToken on R1 hands out in this second, an access token A2 that  *)
(* was handed out for another usable refresh token R2 of the same user   *)
(* and passed ValidateToken still passes it, and R2 is still usable,     *)
(* also when A1 and A2 were issued within the same clock second.         *)
C38_LogoutLeavesOtherSessions ==
    [][\A r1 \in ledger, r2 \in ledger :
          /\ r1.token \in loggedOut' \ loggedOut
          /\ RefreshTokenOp(r1.token, NoFail).err = OK
          /\ RefreshTokenOp(r1.token, NoFail).access \in loggedOutAccess' \ loggedOutAccess
          /\ r2.token # r1.token
          /\ r2.uid = r1.uid
          /\ RefreshTokenOp(r2.token, NoFail).err = OK
          => \A a2 \in {RefreshTokenOp(r2.token, NoFail).access} \cap issued :
                ValidateTokenOp(a2, NoFail).err = OK
                => /\ (ValidateTokenOp(a2, NoFail).err = OK)'
                   /\ (RefreshTokenOp(r2.token, NoFail).err = OK)']_vars

====
